---- MODULE Spec2Model ----
(***************************************************************************)
(* Model of src/src/App.jsx: the FrequencyDistributionCalculator           *)
(* component, its upload handler handleFileUpload and the binning          *)
(* function calculateFrequencyDistribution.                                *)
(*                                                                         *)
(* Numbers.  Observations are JavaScript numbers and need not be whole.    *)
(* A number x is held as the integer x * Unit ("ticks"), so with Unit = 2  *)
(* the inputs are the multiples of 0.5.  The literal 1 of the code is Unit *)
(* ticks.  lowerEdge, upperEdge and midpoint involve 0.5 and a division by *)
(* 2, so they are held in half ticks (x * 2 * Unit).  classWidth and       *)
(* numberOfClasses are results of Math.ceil and are held as plain          *)
(* integers.  rawClassWidth is held as the fraction it is, and             *)
(* rawNumberOfClasses in units of 1 / RawScale.                            *)
(***************************************************************************)
EXTENDS Integers, Sequences, FiniteSets, TLC

VARIABLES
    data,          \* useState([])    line 6
    results,       \* useState(null)  line 7
    error,         \* useState("")    line 8
    loading,       \* useState(false) line 9
    fileSelected,  \* useState(false) line 10
    pending,       \* handleFileUpload calls suspended at their await (31, 42)
    values,        \* `values` of the call that ran last (27) / argument of 72
    last           \* history: what the last step did

vars == <<data, results, error, loading, fileSelected, pending, values, last>>

----------------------------------------------------------------------------
(* Bounds *)

Unit == 2          \* ticks per 1: inputs are multiples of 1/Unit
MaxTick == 4       \* inputs range over -Unit .. MaxTick ticks
MaxLen == 4        \* longest input sequence of the calculator
MaxRamp == 10      \* the inputs also hold 1, 2, .., m for m up to MaxRamp
MaxCells == 2      \* most cells in an uploaded file
MaxPending == 2    \* most upload calls suspended at once

(* Program constants *)

SturgesCoeff10 == 33      \* the 3.3 of line 83, times 10
RawScale == 10000000      \* rawNumberOfClasses is held in units of 1e-7

----------------------------------------------------------------------------
(* Math *)

\* Math.ceil of the fraction num / den, den > 0
Ceil(num, den) == -((-num) \div den)

\* Math.log10(n) in units of 1e-6, truncated; n = 1 and n = 10 are exact
Log10Table ==
    <<0, 301029, 477121, 602059, 698970, 778151, 845098, 903089,
      954242, 1000000, 1041392, 1079181, 1113943, 1146128, 1176091, 1204119>>

Log10(n) == Log10Table[n]

RECURSIVE Insert(_, _)
Insert(x, s) ==
    IF s = <<>> THEN <<x>>
    ELSE IF x - Head(s) < 0 THEN <<x>> \o s
    ELSE <<Head(s)>> \o Insert(x, Tail(s))

\* the sort left out: the input order kept
SortOmitted(s) == s

\* [...values].sort((a, b) => a - b), line 74
RECURSIVE Sort(_)
Sort(s) == IF s = <<>> THEN <<>> ELSE Insert(Head(s), Sort(Tail(s)))

\* Math.min(...s), line 77
MathMin(s) == CHOOSE x \in {s[i] : i \in 1..Len(s)} : \A j \in 1..Len(s) : x <= s[j]

\* Math.max(...s), line 78
MathMax(s) == CHOOSE x \in {s[i] : i \in 1..Len(s)} : \A j \in 1..Len(s) : x >= s[j]

\* sortedData.filter(value => value >= lowerLimit && value <= upperLimit).length
Frequency(sortedData, lowerLimit, upperLimit) ==
    Cardinality({j \in 1..Len(sortedData) :
                    sortedData[j] >= lowerLimit /\ sortedData[j] <= upperLimit})

\* one pass of the loop body, lines 105-121
ClassRow(sortedData, lowerLimit, classWidth) ==
    LET upperLimit == lowerLimit + classWidth * Unit - Unit
    IN  [ lowerEdge     |-> 2 * lowerLimit - Unit,
          classInterval |-> <<lowerLimit, upperLimit>>,
          upperEdge     |-> 2 * upperLimit + Unit,
          midpoint      |-> lowerLimit + upperLimit,
          frequency     |-> Frequency(sortedData, lowerLimit, upperLimit) ]

\* the next class starting on the previous upperLimit
NextLowerLimitOverlap(row) == row.classInterval[2]

\* lowerLimit = upperLimit + 1, line 123
NextLowerLimit(row) == row.classInterval[2] + Unit

\* the loop of lines 104-124, from pass i with the running lowerLimit
RECURSIVE ClassLoop(_, _, _, _, _, _)
ClassLoop(i, numberOfClasses, sortedData, lowerLimit, classWidth, frequencyTable) ==
    IF i < numberOfClasses
    THEN LET row == ClassRow(sortedData, lowerLimit, classWidth)
         IN  ClassLoop(i + 1, numberOfClasses, sortedData, NextLowerLimit(row),
                       classWidth, Append(frequencyTable, row))
    ELSE frequencyTable

\* Math.ceil(1 + 3.3 * Math.log10(n)), lines 83-85
RawNumberOfClasses(n) == RawScale + SturgesCoeff10 * Log10(n)

\* Math.round in place of Math.ceil
NumberOfClassesRounded(n) == (2 * RawNumberOfClasses(n) + RawScale) \div (2 * RawScale)

NumberOfClasses(n) == Ceil(RawNumberOfClasses(n), RawScale)

\* Math.floor in place of Math.ceil
ClassWidthFloor(range, numberOfClasses) == range \div (numberOfClasses * Unit)

\* Math.ceil(range / numberOfClasses), lines 88-90
ClassWidth(range, numberOfClasses) == Ceil(range, numberOfClasses * Unit)

\* the object given to setResults, lines 72-136
calculateFrequencyDistribution(vals) ==
    LET sortedData      == Sort(vals)
        minValue        == MathMin(sortedData)
        maxValue        == MathMax(sortedData)
        range           == maxValue - minValue
        n               == Len(sortedData)
        numberOfClasses == NumberOfClasses(n)
        classWidth      == ClassWidth(range, numberOfClasses)
    IN  [ data               |-> sortedData,
          minValue           |-> minValue,
          maxValue           |-> maxValue,
          range              |-> range,
          numberOfClasses    |-> numberOfClasses,
          rawNumberOfClasses |-> RawNumberOfClasses(n),
          classWidth         |-> classWidth,
          rawClassWidth      |-> [num |-> range, den |-> numberOfClasses * Unit],
          frequencyTable     |-> ClassLoop(0, numberOfClasses, sortedData,
                                           minValue, classWidth, <<>>) ]

----------------------------------------------------------------------------
(* The component: handleFileUpload, lines 12-70 *)

Null == [isNull |-> TRUE]

UnsupportedMessage == "Format file tidak didukung. Harap upload file Excel (.xlsx, .xls) atau CSV."
NoNumericMessage == "Tidak ada data numerik yang ditemukan dalam file."
DefaultMessage == "Terjadi kesalahan saat membaca file."

\* e.target.files[0] is undefined when the dialog is cancelled (line 17)
NoFile == [selected |-> FALSE, ext |-> ""]

\* file.name.split('.').pop().toLowerCase(), line 26
Extensions == {"csv", "xlsx", "xls", "txt"}
AwaitExtensions == {"csv", "xlsx", "xls"}

Files == {NoFile} \cup {[selected |-> TRUE, ext |-> x] : x \in Extensions}

\* a parsed cell: a number, or anything else (a string, a boolean, null)
Cells == {[isNumber |-> FALSE, value |-> 0]}
         \cup {[isNumber |-> TRUE, value |-> v] : v \in {0, MaxTick}}

SeqsUpTo(S, m) == UNION {[1..k -> S] : k \in 0..m}

\* what the awaited read and the parse give: the flattened cells, or a throw
\* whose Error carries a message (possibly empty)
ReadOutcomes ==
    {[ok |-> TRUE, cells |-> c, message |-> ""] : c \in SeqsUpTo(Cells, MaxCells)}
    \cup {[ok |-> FALSE, cells |-> <<>>, message |-> m] : m \in {"", "read failed"}}

IsNumber(cell) == cell.isNumber
CellValue(s) == [i \in 1..Len(s) |-> s[i].value]

\* result.data.flat().filter(value => typeof value === 'number'), lines 39, 53
Extract(cells) == CellValue(SelectSeq(cells, IsNumber))

PendingCount == pending["csv"] + pending["xlsx"] + pending["xls"]

\* a catch clause that only logs
CatchSilent(message) == UNCHANGED <<error, data, results>>

\* the catch clause, lines 64-66: setError(err.message || "Terjadi ...")
Catch(message) ==
    /\ error' = (IF message = "" THEN DefaultMessage ELSE message)
    /\ UNCHANGED <<data, results>>

\* setData left out
StoreResultsOnly(vals) ==
    /\ UNCHANGED data
    /\ results' = calculateFrequencyDistribution(vals)

\* lines 62-63: setData(values); calculateFrequencyDistribution(values)
Store(vals) ==
    /\ data' = vals
    /\ results' = calculateFrequencyDistribution(vals)

\* the call up to its await or its return: lines 13-31, 40-42, 54-55, 64-69
HandleFileUpload(file) ==
    IF ~file.selected
    THEN /\ error' = ""
         /\ fileSelected' = FALSE
         /\ loading' = FALSE
         /\ last' = [op |-> "noFile", invoked |-> FALSE]
         /\ UNCHANGED <<data, results, pending, values>>
    ELSE IF file.ext \in AwaitExtensions
    THEN /\ PendingCount < MaxPending
         /\ error' = ""
         /\ loading' = TRUE
         /\ fileSelected' = TRUE
         /\ values' = <<>>
         /\ pending' = [pending EXCEPT ![file.ext] = @ + 1]
         /\ last' = [op |-> "await", invoked |-> FALSE]
         /\ UNCHANGED <<data, results>>
    ELSE /\ fileSelected' = TRUE
         /\ values' = <<>>
         /\ Catch(UnsupportedMessage)
         /\ loading' = FALSE
         /\ last' = [op |-> "unsupported", invoked |-> FALSE]
         /\ UNCHANGED pending

\* the rest of a suspended call once its read settles: lines 31-39 or 42-53,
\* then 58-69
Resume(ext, outcome) ==
    /\ pending[ext] > 0
    /\ pending' = [pending EXCEPT ![ext] = @ - 1]
    /\ loading' = FALSE
    /\ UNCHANGED fileSelected
    /\ IF ~outcome.ok
       THEN /\ values' = <<>>
            /\ Catch(outcome.message)
            /\ last' = [op |-> "readFailed", invoked |-> FALSE]
       ELSE /\ values' = Extract(outcome.cells)
            /\ IF Len(values') = 0
               THEN /\ Catch(NoNumericMessage)
                    /\ last' = [op |-> "noNumbers", invoked |-> FALSE]
               ELSE /\ Store(values')
                    /\ UNCHANGED error
                    /\ last' = [op |-> "computed", invoked |-> TRUE]

Init ==
    /\ data = <<>>
    /\ results = Null
    /\ error = ""
    /\ loading = FALSE
    /\ fileSelected = FALSE
    /\ pending = [x \in AwaitExtensions |-> 0]
    /\ values = <<>>
    /\ last = [op |-> "init", invoked |-> FALSE]

Next ==
    \/ \E file \in Files : HandleFileUpload(file)
    \/ \E ext \in AwaitExtensions, outcome \in ReadOutcomes : Resume(ext, outcome)

Spec == Init /\ [][Next]_vars

----------------------------------------------------------------------------
(* The calculator alone: calculateFrequencyDistribution applied to an input *)

Ticks == (0 - Unit)..MaxTick

\* 1, 2, .., m
Ramp(m) == [i \in 1..m |-> i * Unit]

Inputs == (SeqsUpTo(Ticks, MaxLen) \ {<<>>}) \cup {Ramp(m) : m \in 1..MaxRamp}

CalcInit ==
    /\ values \in Inputs
    /\ data = <<>>
    /\ results = Null
    /\ error = ""
    /\ loading = FALSE
    /\ fileSelected = FALSE
    /\ pending = [x \in AwaitExtensions |-> 0]
    /\ last = [op |-> "init", invoked |-> FALSE]

Calculate ==
    /\ ~last.invoked
    /\ results' = calculateFrequencyDistribution(values)
    /\ last' = [op |-> "calculate", invoked |-> TRUE]
    /\ UNCHANGED <<data, error, loading, fileSelected, pending, values>>

CalcNext == Calculate

SpecCalc == CalcInit /\ [][CalcNext]_vars

----------------------------------------------------------------------------
(* Vocabulary of the properties *)

Max2(a, b) == IF a >= b THEN a ELSE b

Lower(row) == row.classInterval[1]
Upper(row) == row.classInterval[2]

RECURSIVE SumFrequency(_)
SumFrequency(table) ==
    IF table = <<>> THEN 0 ELSE Head(table).frequency + SumFrequency(Tail(table))

\* the classes of table that hold the observation v
ClassesOf(table, v) == {i \in 1..Len(table) : Lower(table[i]) <= v /\ v <= Upper(table[i])}

AllSame(s) == \A i \in 1..Len(s) : s[i] = s[1]
AllWhole(s) == \A i \in 1..Len(s) : s[i] % Unit = 0
CountOf(s, v) == Cardinality({i \in 1..Len(s) : s[i] = v})

Permute(s, p) == [i \in 1..Len(s) |-> s[p[i]]]
Swap(s, a, b) == [i \in 1..Len(s) |-> IF i = a THEN s[b] ELSE IF i = b THEN s[a] ELSE s[i]]

\* every reordering of an s of at most 4 elements; for a longer s, every
\* exchange of two of its elements (the exchanges generate all reorderings)
Reorderings(s) ==
    IF Len(s) <= 4
    THEN {Permute(s, p) : p \in Permutations(1..Len(s))}
    ELSE {Swap(s, a, b) : a, b \in 1..Len(s)}

Calculated == last.op = "calculate"

----------------------------------------------------------------------------
(* Properties of calculateFrequencyDistribution, under SpecCalc *)

\* C1: for every non-empty input the stored classWidth is
\* max(1, ceil(range / numberOfClasses)), so it is at least 1 when range is 0.
C1_ClassWidthAtLeastOne ==
    Calculated =>
        results.classWidth
            = Max2(1, Ceil(results.range, results.numberOfClasses * Unit))

\* C2: for every non-empty input, whole or not, the frequencies sum to at most
\* n, and to exactly n when the last class's upperLimit reaches maxValue.
C2_FrequencySum ==
    Calculated =>
        LET table == results.frequencyTable
        IN  /\ SumFrequency(table) <= Len(values)
            /\ Upper(table[Len(table)]) >= results.maxValue
                   => SumFrequency(table) = Len(values)

\* C3: when all n observations are the same v, the classes are [v+i, v+i] for
\* i = 0 .. numberOfClasses-1, with frequency n in the first and 0 elsewhere.
C3_IdenticalObservations ==
    (Calculated /\ AllSame(values)) =>
        LET table == results.frequencyTable
        IN  /\ Len(table) = results.numberOfClasses
            /\ \A i \in 1..Len(table) :
                  /\ Lower(table[i]) = values[1] + (i - 1) * Unit
                  /\ Upper(table[i]) = values[1] + (i - 1) * Unit
                  /\ table[i].frequency = (IF i = 1 THEN Len(values) ELSE 0)

\* C5: the result is the same for every reordering of the input; duplicates
\* are kept and counted.
C5_PermutationInvariant ==
    Calculated =>
        /\ \A s \in Reorderings(values) : calculateFrequencyDistribution(s) = results
        /\ Len(results.data) = Len(values)
        /\ \A i \in 1..Len(values) :
              CountOf(results.data, values[i]) = CountOf(values, values[i])

C5_Witness ==
    /\ Calculated
    /\ Len(values) = 3
    /\ values[1] > values[2]
    /\ values[2] = values[3]
    /\ results.frequencyTable[1].frequency = 2

\* C6: numberOfClasses is ceil(1 + 3.3 * log10(n)), that is the one integer k
\* with k - 1 < 1 + 3.3 * log10(n) <= k; it is at least 1; the table has
\* numberOfClasses rows; n = 1 gives 1, n = 3 gives 3, n = 10 gives 5.
C6_SturgesClassCount ==
    Calculated =>
        LET n == Len(values)
            k == results.numberOfClasses
        IN  /\ k >= 1
            /\ (k - 1) * RawScale < RawScale + SturgesCoeff10 * Log10(n)
            /\ RawScale + SturgesCoeff10 * Log10(n) <= k * RawScale
            /\ Len(results.frequencyTable) = k
            /\ n = 1 => k = 1
            /\ n = 3 => k = 3
            /\ n = 10 => k = 5

C6_Witness ==
    /\ Calculated
    /\ Len(values) = 10
    /\ Len(results.frequencyTable) = 5

C9_OnlyMaximumMissed ==
    (Calculated /\ AllWhole(values)) =>
        LET table == results.frequencyTable
        IN  /\ Upper(table[Len(table)]) >= results.maxValue - Unit
            /\ \A j \in 1..Len(values) :
                  values[j] < results.maxValue
                      => Cardinality(ClassesOf(table, values[j])) = 1
            /\ Len(values) - SumFrequency(table)
                   \in {0, CountOf(values, results.maxValue)}

C9_Witness ==
    /\ Calculated
    /\ AllWhole(values)
    /\ results.range > 0
    /\ SumFrequency(results.frequencyTable) < Len(values)

----------------------------------------------------------------------------
(* Properties of the component, under Spec *)

FinishedWithFile == last.op \in {"unsupported", "readFailed", "noNumbers", "computed"}

\* C4: an upload whose extraction yields no number ends with a non-empty
\* error, does not call calculateFrequencyDistribution, and stores nothing.
C4_EmptyExtractionFails ==
    [][ last'.op = "noNumbers"
            => /\ values' = <<>>
               /\ error' # ""
               /\ ~last'.invoked
               /\ results' = results
               /\ data' = data ]_vars

C4_Witness ==
    /\ last.op = "noNumbers"
    /\ error = NoNumericMessage
    /\ results # Null

\* C8: after a call that selected a file has finished, results is null or the
\* distribution of that call's extracted values, never an earlier upload's.
C8_NoStaleResult ==
    FinishedWithFile =>
        \/ results = Null
        \/ /\ values # <<>>
           /\ results = calculateFrequencyDistribution(values)

\* C10: whenever results is not null its data is the ascending sort of the
\* data state, whatever the order in which the calls start and complete.
C10_ResultsMatchData ==
    results # Null =>
        /\ data # <<>>
        /\ results = calculateFrequencyDistribution(data)
        /\ results.data = Sort(data)
        /\ \A i \in 1..(Len(results.data) - 1) : results.data[i] <= results.data[i + 1]

C10_Witness ==
    /\ results # Null
    /\ PendingCount > 0
    /\ last.op \in {"readFailed", "noNumbers"}
    /\ Len(data) = 2
    /\ data[1] > data[2]

\* C2 read for whole-number input only: there the frequencies do sum to n
\* whenever the last upperLimit reaches maxValue.
FrequencySumWhole ==
    (Calculated /\ AllWhole(values)) => C2_FrequencySum

====
